---- MODULE Spec2Model ----
(***************************************************************************)
(* Model of build.py, the build script of autd3-server.                    *)
(*                                                                         *)
(* One run of the script is a state machine: the __main__ block enters the *)
(* script's directory, parses argv, dispatches to one handler, and the     *)
(* handler executes its statements one at a time.  External commands are   *)
(* the environment: each returns a nondeterministic exit code.             *)
(*                                                                         *)
(* Config.shaderc is computed from the environment by                      *)
(* is_shaderc_available() without side effects and is read by no handler;  *)
(* it is not part of the state.                                            *)
(***************************************************************************)
EXTENDS Integers, Sequences, FiniteSets, TLC

VARIABLES
    argv,        \* sys.argv[1:], a sequence of tokens
    platform,    \* platform.system()
    startCwd,    \* os.getcwd() when the script starts
    phase,       \* position in __main__
    ip,          \* index of the next statement of the running handler
    args,        \* the namespace returned by parser.parse_args()
    cwd,         \* the process's current working directory
    saved,       \* the cwd saved by each open working_dir block, outermost first
    fs,          \* binary files and directories on disk: path -> [content, mtime]
    fs0,         \* fs as it was when the script started
    docs,        \* text files on disk: path -> sequence of lines
    log,         \* the external commands and file operations executed so far
    handlers,    \* the handlers called so far
    helpPrinted, \* parser.print_help() was called
    exitCode     \* <<>> while running, <<status>> once the process has exited

vars == <<argv, platform, startCwd, phase, ip, args, cwd, saved, fs, fs0, docs, log,
          handlers, helpPrinted, exitCode>>

----------------------------------------------------------------------------
(* Paths.  A directory is a sequence of components; a file is a directory  *)
(* plus a name split into stem, tail and extension, so that glob patterns  *)
(* "stem*" and Path.with_suffix can be computed.                           *)

ScriptDir == <<"/", "repo">>

NoPath == [dir |-> <<>>, stem |-> "", tail |-> "", ext |-> ""]

File(d, s, t, e) == [dir |-> d, stem |-> s, tail |-> t, ext |-> e]

\* os.chdir(path) / path resolution against the current directory
chdir(current, path) ==
    IF path # <<>> /\ path[1] = "/" THEN path
    ELSE IF path = <<".">> THEN current
    ELSE current \o path

Abs(current, p) == [p EXCEPT !.dir = chdir(current, p.dir)]

\* pathlib.Path.with_suffix: replaces the last suffix of the name
with_suffix(p, suffix) == [p EXCEPT !.ext = suffix]

\* the process exit status is the low byte of the value given to sys.exit
ExitStatus(n) == n % 256

----------------------------------------------------------------------------
(* Config                                                                  *)

Platforms == {"Windows", "Darwin", "Linux", "FreeBSD"}

is_windows(p) == p = "Windows"
is_macos(p)   == p = "Darwin"
is_linux(p)   == p = "Linux"

exe_ext(p) == IF is_windows(p) THEN ".exe" ELSE ""

ConfigSupported_any(p) == TRUE

\* the test of Config.__init__: TRUE when the constructor returns
ConfigSupported(p) == is_windows(p) \/ is_macos(p) \/ is_linux(p)

----------------------------------------------------------------------------
(* The argument parser built in __main__                                   *)

ComponentFlags == <<"--simulator", "--soem", "--twincat", "--main">>

FlagSet == {ComponentFlags[i] : i \in 1..Len(ComponentFlags)}

subparsers_lint_builds ==
    [build |-> "server_build",
     lint  |-> "server_build",
     clear |-> "server_clear",
     util  |-> "none",
     help  |-> "command_help"]

\* subparsers.add_parser(name) ... set_defaults(handler=...)
subparsers ==
    [build |-> "server_build",
     lint  |-> "server_lint",
     clear |-> "server_clear",
     util  |-> "none",
     help  |-> "command_help"]

\* subparsers_util.add_parser("upver") ... set_defaults(handler=util_update_ver)
subparsers_util == [upver |-> "util_update_ver"]

Tokens(s) == {s[i] : i \in 1..Len(s)}

NoArgs ==
    [error |-> FALSE, handler |-> "none", simulator |-> FALSE, soem |-> FALSE,
     twincat |-> FALSE, main |-> FALSE, version |-> "", command |-> ""]

ParseError == [NoArgs EXCEPT !.error = TRUE]

\* parser.parse_args(): the namespace, or an argparse error (exit status 2)
parse_args(tokens) ==
    IF tokens = <<>> THEN NoArgs
    ELSE IF tokens[1] \notin DOMAIN subparsers THEN ParseError
    ELSE LET sub  == tokens[1]
             rest == Tail(tokens)
         IN CASE sub \in {"build", "lint"} ->
                   IF Tokens(rest) \subseteq FlagSet
                   THEN [NoArgs EXCEPT !.handler   = subparsers[sub],
                                       !.simulator = "--simulator" \in Tokens(rest),
                                       !.soem      = "--soem" \in Tokens(rest),
                                       !.twincat   = "--twincat" \in Tokens(rest),
                                       !.main      = "--main" \in Tokens(rest)]
                   ELSE ParseError
              [] sub = "clear" ->
                   IF rest = <<>> THEN [NoArgs EXCEPT !.handler = subparsers[sub]]
                   ELSE ParseError
              [] sub = "util" ->
                   IF rest = <<>> THEN NoArgs
                   ELSE IF rest[1] \notin DOMAIN subparsers_util THEN ParseError
                   ELSE IF Len(rest) = 2
                        THEN [NoArgs EXCEPT !.handler = subparsers_util[rest[1]],
                                            !.version = rest[2]]
                        ELSE ParseError
              [] sub = "help" ->
                   IF Len(rest) = 1
                   THEN [NoArgs EXCEPT !.handler = subparsers[sub],
                                       !.command = rest[1]]
                   ELSE ParseError

----------------------------------------------------------------------------
(* Statements.  A handler is the sequence of the statements it executes    *)
(* for the given arguments and platform, in program order.                 *)

Stmt(o) == [op |-> o, cmd |-> <<>>, dir |-> <<>>, path |-> NoPath,
            path2 |-> NoPath, shell |-> FALSE]

ConfigS          == Stmt("config")                               \* config = Config(args)
EnterS(d)        == [Stmt("enter") EXCEPT !.dir = d]             \* with working_dir(d):
LeaveS           == Stmt("leave")                                \* end of the with block
RunS(c, sh)      == [Stmt("run") EXCEPT !.cmd = c, !.shell = sh] \* subprocess.run(c).check_returncode()
CopyS(src, dst)  == [Stmt("copy") EXCEPT !.path = src, !.path2 = dst]
TouchS(p)        == [Stmt("touch") EXCEPT !.path = p]
RmTreeS(p)       == [Stmt("rmtree") EXCEPT !.path = p]
RmS(p)           == [Stmt("rm") EXCEPT !.path = p]
RmGlobS(p)       == [Stmt("rmglob") EXCEPT !.path = p]
SubS(o)          == Stmt(o)                                      \* one read / re.sub / write block
HelpS            == Stmt("help")

Release == <<"target", "release">>

\* create_dummy_if_not_exists(file): the path that is touched
create_dummy_if_not_exists(file, p) ==
    IF is_windows(p) THEN with_suffix(file, ".exe") ELSE file

CargoBuild      == <<"cargo", "build", "--release">>
CargoBuildUnity == <<"cargo", "build", "--release", "--features", "unity">>
CargoClippy     == <<"cargo", "clippy", "--tests", "--", "-D", "warnings">>
CargoUpdate     == <<"cargo", "update">>
CargoClean      == <<"cargo", "clean">>
NpmInstall      == <<"npm", "install">>
NpmTauriBuild   == <<"npm", "run", "tauri", "build">>
NpmCacheClean   == <<"npm", "cache", "clean", "--force">>
NpmI            == <<"npm", "i">>

Block(d, body) == <<EnterS(d)>> \o body \o <<LeaveS>>

\* lines 139-162
build_simulator_copy_late(p) ==
    Block(<<"simulator">>, <<RunS(CargoBuildUnity, FALSE)>>)
    \o Block(<<"simulator">>, <<RunS(CargoBuild, FALSE)>>)
    \o (IF is_windows(p)
        THEN <<CopyS(File(Release, "simulator", "", ".exe"),
                     File(Release, "simulator", "-unity", ".exe"))>>
        ELSE <<CopyS(File(Release, "simulator", "", ""),
                     File(Release, "simulator", "-unity", ""))>>)

build_simulator(p) ==
    Block(<<"simulator">>, <<RunS(CargoBuildUnity, FALSE)>>)
    \o (IF is_windows(p)
        THEN <<CopyS(File(Release, "simulator", "", ".exe"),
                     File(Release, "simulator", "-unity", ".exe"))>>
        ELSE <<CopyS(File(Release, "simulator", "", ""),
                     File(Release, "simulator", "-unity", ""))>>)
    \o Block(<<"simulator">>, <<RunS(CargoBuild, FALSE)>>)

\* lines 164-166
build_soem == Block(<<"SOEMAUTDServer">>, <<RunS(CargoBuild, FALSE)>>)

\* lines 168-170
build_twincat == Block(<<"TwinCATAUTDServerLightweight">>, <<RunS(CargoBuild, FALSE)>>)

\* lines 172-187
build_main(p) ==
    LET shell == is_windows(p) IN
    <<RunS(NpmInstall, shell),
      TouchS(create_dummy_if_not_exists(File(Release, "simulator", "-unity", ""), p)),
      TouchS(create_dummy_if_not_exists(File(Release, "simulator", "", ""), p)),
      TouchS(create_dummy_if_not_exists(File(Release, "SOEMAUTDServer", "", ""), p)),
      TouchS(create_dummy_if_not_exists(File(Release, "TwinCATAUTDServerLightweight", "", ""), p)),
      RunS(NpmTauriBuild, shell)>>

server_build_soem_first(a, p) ==
    <<ConfigS>>
    \o (IF a.soem THEN build_soem ELSE <<>>)
    \o (IF a.simulator THEN build_simulator(p) ELSE <<>>)
    \o (IF a.twincat THEN build_twincat ELSE <<>>)
    \o (IF a.main THEN build_main(p) ELSE <<>>)

server_build(a, p) ==
    <<ConfigS>>
    \o (IF a.simulator THEN build_simulator(p) ELSE <<>>)
    \o (IF a.soem THEN build_soem ELSE <<>>)
    \o (IF a.twincat THEN build_twincat ELSE <<>>)
    \o (IF a.main THEN build_main(p) ELSE <<>>)

server_lint_wrong_flag(a, p) ==
    (IF a.simulator
     THEN Block(<<"simulator">>, <<RunS(CargoClippy, FALSE)>>) ELSE <<>>)
    \o (IF a.soem
        THEN Block(<<"SOEMAUTDServer">>, <<RunS(CargoClippy, FALSE)>>) ELSE <<>>)
    \o (IF a.twincat
        THEN Block(<<"TwinCATAUTDServerLightweight">>, <<RunS(CargoClippy, FALSE)>>)
        ELSE <<>>)
    \o (IF a.twincat
        THEN Block(<<"src-tauri">>, <<RunS(CargoClippy, FALSE)>>) ELSE <<>>)

server_lint(a, p) ==
    (IF a.simulator
     THEN Block(<<"simulator">>, <<RunS(CargoClippy, FALSE)>>) ELSE <<>>)
    \o (IF a.soem
        THEN Block(<<"SOEMAUTDServer">>, <<RunS(CargoClippy, FALSE)>>) ELSE <<>>)
    \o (IF a.twincat
        THEN Block(<<"TwinCATAUTDServerLightweight">>, <<RunS(CargoClippy, FALSE)>>)
        ELSE <<>>)
    \o (IF a.main
        THEN Block(<<"src-tauri">>, <<RunS(CargoClippy, FALSE)>>) ELSE <<>>)

server_clear_config_late(a, p) ==
    Block(<<".">>,
          <<RunS(NpmCacheClean, is_windows(p)),
            ConfigS,
            RmTreeS(File(<<>>, "node_modules", "", "")),
            RmTreeS(File(<<>>, "dist", "", ""))>>
          \o Block(<<"src-tauri">>,
                   <<RmTreeS(File(<<>>, "assets", "", "")),
                     RmS(File(<<>>, "NOTICE", "", "")),
                     RmGlobS(File(<<>>, "LICENSE", "", "")),
                     RmGlobS(File(<<>>, "simulator", "", "")),
                     RmGlobS(File(<<>>, "SOEMAUTDServer", "", ""))>>)
          \o <<RunS(CargoClean, FALSE)>>)

server_clear(a, p) ==
    <<ConfigS>>
    \o Block(<<".">>,
             <<RunS(NpmCacheClean, is_windows(p)),
               RmTreeS(File(<<>>, "node_modules", "", "")),
               RmTreeS(File(<<>>, "dist", "", ""))>>
             \o Block(<<"src-tauri">>,
                      <<RmTreeS(File(<<>>, "assets", "", "")),
                        RmS(File(<<>>, "NOTICE", "", "")),
                        RmGlobS(File(<<>>, "LICENSE", "", "")),
                        RmGlobS(File(<<>>, "simulator", "", "")),
                        RmGlobS(File(<<>>, "SOEMAUTDServer", "", ""))>>)
             \o <<RunS(CargoClean, FALSE)>>)

util_update_ver_tauri_late(a, p) ==
    <<ConfigS>>
    \o Block(<<".">>,
             <<SubS("sub_tomls"), SubS("sub_notices"), SubS("sub_package")>>
             \o Block(<<"SOEMAUTDServer">>, <<RunS(CargoUpdate, FALSE)>>)
             \o Block(<<"TwinCATAUTDServerLightweight">>, <<RunS(CargoUpdate, FALSE)>>)
             \o Block(<<"simulator">>, <<RunS(CargoUpdate, FALSE)>>)
             \o Block(<<"src-tauri">>, <<RunS(CargoUpdate, FALSE)>>)
             \o <<SubS("sub_tauri"), RunS(NpmI, is_windows(p))>>)

util_update_ver(a, p) ==
    <<ConfigS>>
    \o Block(<<".">>,
             <<SubS("sub_tomls"), SubS("sub_notices"),
               SubS("sub_package"), SubS("sub_tauri")>>
             \o Block(<<"SOEMAUTDServer">>, <<RunS(CargoUpdate, FALSE)>>)
             \o Block(<<"TwinCATAUTDServerLightweight">>, <<RunS(CargoUpdate, FALSE)>>)
             \o Block(<<"simulator">>, <<RunS(CargoUpdate, FALSE)>>)
             \o Block(<<"src-tauri">>, <<RunS(CargoUpdate, FALSE)>>)
             \o <<RunS(NpmI, is_windows(p))>>)

command_help(a, p) == <<HelpS>>

\* args.handler(args)
Program(a, p) ==
    CASE a.handler = "server_build"    -> server_build(a, p)
      [] a.handler = "server_lint"     -> server_lint(a, p)
      [] a.handler = "server_clear"    -> server_clear(a, p)
      [] a.handler = "util_update_ver" -> util_update_ver(a, p)
      [] a.handler = "command_help"    -> command_help(a, p)
      [] OTHER                         -> <<>>

----------------------------------------------------------------------------
(* File operations                                                         *)

FileRec(c, m) == [content |-> c, mtime |-> m]

\* write (create or replace) one file
Put(f, p, rec) == [q \in DOMAIN f \cup {p} |-> IF q = p THEN rec ELSE f[q]]

Drop(f, S) == [q \in DOMAIN f \ S |-> f[q]]

\* q lies in the tree rooted at directory d
Under(d, q) == Len(q.dir) >= Len(d) /\ SubSeq(q.dir, 1, Len(d)) = d

touch_truncate(f, p) == Put(f, p, FileRec("", "now"))

\* Path.touch(): creates an empty file, or updates the time of an existing one
touch(f, p) ==
    IF p \in DOMAIN f THEN Put(f, p, [f[p] EXCEPT !.mtime = "now"])
    ELSE Put(f, p, FileRec("", "now"))

\* rm_f(path)
rm_f(f, p) == Drop(f, {p})

\* rmtree_f(path): the directory and everything below it
rmtree_f(f, p) ==
    Drop(f, {p} \cup {q \in DOMAIN f : Under(p.dir \o <<p.stem>>, q)})

\* rm_glob_f("<stem>*"): the entries of the current directory whose name
\* starts with the stem
rm_glob_f(f, p) ==
    Drop(f, {q \in DOMAIN f : q.dir = p.dir /\ q.stem = p.stem})

\* what the cargo commands leave on disk when they succeed: cargo build
\* writes the crate's executable into the workspace's target/release when
\* the target directory is the default one, cargo clean removes target/
CommandEffect(f, c, dir, p, wrote) ==
    IF c \in {CargoBuild, CargoBuildUnity} /\ wrote
    THEN Put(f, File(ScriptDir \o Release, dir[Len(dir)], "", exe_ext(p)),
             FileRec(IF c = CargoBuildUnity THEN "unity" ELSE "plain", "now"))
    ELSE IF c = CargoClean
    THEN Drop(f, {q \in DOMAIN f : Under(dir \o <<"target">>, q)})
    ELSE f

check_returncode_never(rc) == FALSE

\* CompletedProcess.check_returncode(): TRUE when it raises
check_returncode(rc) == rc # 0

----------------------------------------------------------------------------
(* Version substitution.  A text file is a sequence of lines; a line is    *)
(* [head, name, ver, lic]: "<head><name> ... <ver> ... (<lic>)".           *)

Line(h, n, v, l) == [head |-> h, name |-> n, ver |-> v, lic |-> l]

\* re.sub with re.MULTILINE and a pattern anchored in one line: every line
\* is matched on its own

\* lines 259-270
SubToml(content, version) ==
    LET s1(l) == IF l.head = "version" THEN [l EXCEPT !.ver = version] ELSE l
        s2(l) == IF l.head = "autd3" THEN [l EXCEPT !.ver = version] ELSE l
        c1 == [i \in 1..Len(content) |-> s1(content[i])]
    IN [i \in 1..Len(content) |-> s2(c1[i])]

\* lines 277-306
SubNotice(content, version) ==
    LET s1(l) == IF l.head = "autd3" /\ l.lic # ""
                 THEN [l EXCEPT !.ver = version, !.lic = "MIT"] ELSE l
        s2(l) == IF l.head = "autd3" /\ l.name = "-link-soem"
                 THEN [l EXCEPT !.ver = version, !.lic = ""] ELSE l
        s3(l) == IF l.head = "autd3" /\ l.name = "-link-twincat"
                 THEN [l EXCEPT !.ver = version, !.lic = ""] ELSE l
        s4(l) == IF l.head = "SOEMAUTDServer" /\ l.name = "" /\ l.lic = "MIT"
                 THEN [l EXCEPT !.ver = version] ELSE l
        s5(l) == IF l.head = "simulator" /\ l.name = "" /\ l.lic = "MIT"
                 THEN [l EXCEPT !.ver = version] ELSE l
        c1 == [i \in 1..Len(content) |-> s1(content[i])]
        c2 == [i \in 1..Len(content) |-> s2(c1[i])]
        c3 == [i \in 1..Len(content) |-> s3(c2[i])]
        c4 == [i \in 1..Len(content) |-> s4(c3[i])]
    IN [i \in 1..Len(content) |-> s5(c4[i])]

\* lines 312-317
SubPackage(content, version) ==
    LET s1(l) == IF l.head = "version" THEN [l EXCEPT !.ver = version] ELSE l
    IN [i \in 1..Len(content) |-> s1(content[i])]

\* lines 323-334
SubTauri(content, version) ==
    LET s1(l) == IF l.head = "version" THEN [l EXCEPT !.ver = version] ELSE l
        s2(l) == IF l.head = "title" THEN [l EXCEPT !.ver = version] ELSE l
        c1 == [i \in 1..Len(content) |-> s1(content[i])]
    IN [i \in 1..Len(content) |-> s2(c1[i])]

\* glob.glob("./**/*/<name>", recursive=True) from directory d: the files of
\* that name at least one directory below d
GlobBelow(d, f, stem, ext) ==
    {q \in DOMAIN f : q.stem = stem /\ q.ext = ext /\ Under(d, q) /\ Len(q.dir) > Len(d)}

----------------------------------------------------------------------------
(* Inputs of a run                                                         *)

OldVersion == "27.0.0"
NewVersion == "28.0.0"

Reverse(s) == [i \in 1..Len(s) |-> s[Len(s) + 1 - i]]

\* the component flags of a subset, in either order on the command line
FlagSeqs ==
    UNION {LET f == SelectSeq(ComponentFlags, LAMBDA t : t \in S)
           IN {f, Reverse(f)} : S \in SUBSET FlagSet}

Argvs ==
    {<<>>}
    \cup {<<"build">> \o f : f \in FlagSeqs}
    \cup {<<"lint">> \o f : f \in FlagSeqs}
    \cup {<<"build", "--bogus">>, <<"clear">>, <<"util">>, <<"util", "upver">>,
          <<"util", "upver", NewVersion>>, <<"help", "build">>,
          <<"help", "bogus">>, <<"check-license">>}

StartDirs == {ScriptDir, <<"/", "home">>}

Tauri == ScriptDir \o <<"src-tauri">>

\* the four helper executables the bundler packs
Helpers(p) ==
    {File(ScriptDir \o Release, "simulator", "-unity", exe_ext(p)),
     File(ScriptDir \o Release, "simulator", "", exe_ext(p)),
     File(ScriptDir \o Release, "SOEMAUTDServer", "", exe_ext(p)),
     File(ScriptDir \o Release, "TwinCATAUTDServerLightweight", "", exe_ext(p))}

\* what earlier runs may have left in target/release
Leftovers(p) ==
    {{}, {File(ScriptDir \o Release, "simulator", "", exe_ext(p))}, Helpers(p)}

\* files and directories of the checkout that server_clear is about
CheckoutFiles ==
    {File(ScriptDir, "node_modules", "", ""),
     File(ScriptDir \o <<"node_modules">>, "tauri", "", ".js"),
     File(ScriptDir, "dist", "", ""),
     File(Tauri, "assets", "", ""),
     File(Tauri \o <<"assets">>, "icon", "", ".png"),
     File(Tauri, "NOTICE", "", ""),
     File(Tauri, "LICENSE", "", ""),
     File(Tauri, "LICENSE", "-MIT", ""),
     File(Tauri, "simulator", "", ""),
     File(Tauri, "simulator", "-unity", ""),
     File(Tauri, "SOEMAUTDServer", "", ""),
     File(Tauri, "build", "", ".rs")}

InitFs(left) ==
    [q \in CheckoutFiles \cup left |->
        IF q \in CheckoutFiles THEN FileRec("data", "old") ELSE FileRec("stale", "old")]

TomlText ==
    <<Line("version", "", OldVersion, ""),
      Line("autd3", "-driver", OldVersion, ""),
      Line("serde", "", "1.0.0", "")>>

NoticeText ==
    <<Line("autd3", "-driver", OldVersion, "MIT"),
      Line("autd3", "-link-soem", OldVersion, "MIT"),
      Line("autd3", "-link-twincat", OldVersion, "MIT"),
      Line("SOEMAUTDServer", "", OldVersion, "MIT"),
      Line("simulator", "", OldVersion, "MIT"),
      Line("serde", "", "1.0.0", "Apache-2.0")>>

PackageText ==
    <<Line("name", "", "autd3-server", ""), Line("version", "", OldVersion, "")>>

TauriText ==
    <<Line("version", "", OldVersion, ""), Line("title", "", OldVersion, ""),
      Line("identifier", "", "com.shinolab.autd3", "")>>

CrateDirs == {"SOEMAUTDServer", "TwinCATAUTDServerLightweight", "simulator", "src-tauri"}

Tomls    == {File(ScriptDir \o <<c>>, "Cargo", "", ".toml") : c \in CrateDirs}
RootToml == File(ScriptDir, "Cargo", "", ".toml")
Notices  == {File(ScriptDir \o <<c>>, "ThirdPartyNotice", "", ".txt") : c \in CrateDirs}
PackageJson == File(ScriptDir, "package", "", ".json")
TauriConf   == File(Tauri, "tauri", ".conf", ".json")

InitDocs ==
    [q \in Tomls \cup {RootToml} \cup Notices \cup {PackageJson, TauriConf} |->
        IF q \in Tomls \cup {RootToml} THEN TomlText
        ELSE IF q \in Notices THEN NoticeText
        ELSE IF q = PackageJson THEN PackageText
        ELSE TauriText]

Init ==
    /\ argv \in Argvs
    /\ platform \in Platforms
    /\ startCwd \in StartDirs
    /\ phase = "start"
    /\ ip = 0
    /\ args = NoArgs
    /\ cwd = startCwd
    /\ saved = <<>>
    /\ \E left \in Leftovers(platform) : fs = InitFs(left)
    /\ fs0 = fs
    /\ docs = InitDocs
    /\ log = <<>>
    /\ handlers = <<>>
    /\ helpPrinted = FALSE
    /\ exitCode = <<>>

----------------------------------------------------------------------------
(* working_dir and process exit                                            *)

Front(s) == SubSeq(s, 1, Len(s) - 1)
Last(s)  == s[Len(s)]

\* working_dir, before the yield: the cwd that is saved and the new cwd
working_dir_enter(current, path) == [save |-> current, cwd |-> chdir(current, path)]

working_dir_exit_stay(savedCwd, current) == current

\* working_dir, the finally clause: the cwd after os.chdir(cwd)
working_dir_exit(savedCwd, current) == savedCwd

\* an exception or SystemExit leaves every open working_dir block, innermost first
RECURSIVE Unwind(_, _)
Unwind(stack, current) ==
    IF stack = <<>> THEN current
    ELSE Unwind(Front(stack), working_dir_exit(Last(stack), current))

\* the process ends with the given exit value
Abort(code) ==
    /\ phase' = "done"
    /\ exitCode' = <<ExitStatus(code)>>
    /\ cwd' = Unwind(saved, cwd)
    /\ saved' = <<>>

Prog == Program(args, platform)

AtStmt(o) == phase = "handler" /\ ip <= Len(Prog) /\ Prog[ip].op = o

Cur == Prog[ip]

Event(st, rc) ==
    [ip |-> ip, op |-> st.op, cmd |-> st.cmd, path |-> st.path, path2 |-> st.path2,
     shell |-> st.shell, cwd |-> cwd, rc |-> rc]

\* exit codes an external command may return
ReturnCodes == {0, 1, 101}

Step == /\ ip' = ip + 1
        /\ UNCHANGED <<phase, exitCode>>

Inputs == <<argv, platform, startCwd, fs0>>

----------------------------------------------------------------------------
(* __main__                                                                *)

MainEnter ==
    /\ phase = "start"
    /\ LET w == working_dir_enter(cwd, ScriptDir)
       IN /\ saved' = Append(saved, w.save)
          /\ cwd' = w.cwd
    /\ phase' = "parse"
    /\ UNCHANGED <<Inputs, ip, args, fs, docs, log, handlers, helpPrinted, exitCode>>

ParseArgs ==
    /\ phase = "parse"
    /\ LET a == parse_args(argv)
       IN IF a.error
          THEN Abort(2) /\ UNCHANGED args
          ELSE /\ args' = a
               /\ phase' = "dispatch"
               /\ UNCHANGED <<cwd, saved, exitCode>>
    /\ UNCHANGED <<Inputs, ip, fs, docs, log, handlers, helpPrinted>>

Dispatch ==
    /\ phase = "dispatch"
    /\ IF args.handler # "none"
       THEN /\ handlers' = Append(handlers, args.handler)
            /\ phase' = "handler"
            /\ ip' = 1
            /\ UNCHANGED helpPrinted
       ELSE /\ helpPrinted' = TRUE
            /\ phase' = "exit"
            /\ UNCHANGED <<handlers, ip>>
    /\ UNCHANGED <<Inputs, args, cwd, saved, fs, docs, log, exitCode>>

HandlerReturn ==
    /\ phase = "handler"
    /\ ip > Len(Prog)
    /\ phase' = "exit"
    /\ UNCHANGED <<Inputs, ip, args, cwd, saved, fs, docs, log, handlers,
                   helpPrinted, exitCode>>

MainExit ==
    /\ phase = "exit"
    /\ cwd' = working_dir_exit(Last(saved), cwd)
    /\ saved' = Front(saved)
    /\ exitCode' = <<0>>
    /\ phase' = "done"
    /\ UNCHANGED <<Inputs, ip, args, fs, docs, log, handlers, helpPrinted>>

----------------------------------------------------------------------------
(* Statements of the handlers                                              *)

ConfigInit ==
    /\ AtStmt("config")
    /\ IF ConfigSupported(platform)
       THEN /\ log' = Append(log, Event(Cur, 0))
            /\ Step
            /\ UNCHANGED <<cwd, saved>>
       ELSE /\ log' = Append(log, Event(Cur, ExitStatus(-1)))
            /\ Abort(-1)
            /\ UNCHANGED ip
    /\ UNCHANGED <<Inputs, args, fs, docs, handlers, helpPrinted>>

EnterDir ==
    /\ AtStmt("enter")
    /\ LET w == working_dir_enter(cwd, Cur.dir)
       IN /\ saved' = Append(saved, w.save)
          /\ cwd' = w.cwd
    /\ Step
    /\ UNCHANGED <<Inputs, args, fs, docs, log, handlers, helpPrinted>>

LeaveDir ==
    /\ AtStmt("leave")
    /\ cwd' = working_dir_exit(Last(saved), cwd)
    /\ saved' = Front(saved)
    /\ Step
    /\ UNCHANGED <<Inputs, args, fs, docs, log, handlers, helpPrinted>>

RunCommand ==
    /\ AtStmt("run")
    /\ \E rc \in ReturnCodes, wrote \in BOOLEAN :
          /\ wrote => rc = 0 /\ Cur.cmd \in {CargoBuild, CargoBuildUnity}
          /\ log' = Append(log, Event(Cur, rc))
          /\ fs' = IF rc = 0 THEN CommandEffect(fs, Cur.cmd, cwd, platform, wrote) ELSE fs
          /\ IF check_returncode(rc)
             THEN Abort(1) /\ UNCHANGED ip
             ELSE Step /\ UNCHANGED <<cwd, saved>>
    /\ UNCHANGED <<Inputs, args, docs, handlers, helpPrinted>>

\* shutil.copy(src, dst); a missing source raises FileNotFoundError
CopyFile ==
    /\ AtStmt("copy")
    /\ LET src == Abs(cwd, Cur.path)
           dst == Abs(cwd, Cur.path2)
       IN IF src \in DOMAIN fs
          THEN /\ fs' = Put(fs, dst, FileRec(fs[src].content, "now"))
               /\ log' = Append(log, Event(Cur, 0))
               /\ Step
               /\ UNCHANGED <<cwd, saved>>
          ELSE /\ log' = Append(log, Event(Cur, 1))
               /\ Abort(1)
               /\ UNCHANGED <<fs, ip>>
    /\ UNCHANGED <<Inputs, args, docs, handlers, helpPrinted>>

FileOp(o, result) ==
    /\ AtStmt(o)
    /\ fs' = result
    /\ log' = Append(log, Event(Cur, 0))
    /\ Step
    /\ UNCHANGED <<Inputs, args, cwd, saved, docs, handlers, helpPrinted>>

TouchFile  == FileOp("touch", touch(fs, Abs(cwd, Cur.path)))
RemoveTree == FileOp("rmtree", rmtree_f(fs, Abs(cwd, Cur.path)))
RemoveFile == FileOp("rm", rm_f(fs, Abs(cwd, Cur.path)))
RemoveGlob == FileOp("rmglob", rm_glob_f(fs, Abs(cwd, Cur.path)))

\* one "read, re.sub, write" block: the statement and the files it leaves
Rewrite(o, result) ==
    /\ AtStmt(o)
    /\ docs' = result
    /\ log' = Append(log, Event(Cur, 0))
    /\ Step
    /\ UNCHANGED <<Inputs, args, cwd, saved, fs, handlers, helpPrinted>>

RewriteTomls ==
    Rewrite("sub_tomls",
            [q \in DOMAIN docs |->
                IF q \in GlobBelow(cwd, docs, "Cargo", ".toml")
                THEN SubToml(docs[q], args.version) ELSE docs[q]])

RewriteNotices ==
    Rewrite("sub_notices",
            [q \in DOMAIN docs |->
                IF q \in GlobBelow(cwd, docs, "ThirdPartyNotice", ".txt")
                THEN SubNotice(docs[q], args.version) ELSE docs[q]])

RewritePackage ==
    Rewrite("sub_package",
            [q \in DOMAIN docs |->
                IF q = Abs(cwd, File(<<>>, "package", "", ".json"))
                THEN SubPackage(docs[q], args.version) ELSE docs[q]])

RewriteTauri ==
    Rewrite("sub_tauri",
            [q \in DOMAIN docs |->
                IF q = Abs(cwd, File(<<"src-tauri">>, "tauri", ".conf", ".json"))
                THEN SubTauri(docs[q], args.version) ELSE docs[q]])

\* command_help: parser.parse_args([args.command, "--help"]) prints the
\* subcommand's help and exits 0, or is an argparse error
HelpStep ==
    /\ AtStmt("help")
    /\ IF args.command \in DOMAIN subparsers
       THEN helpPrinted' = TRUE /\ Abort(0)
       ELSE Abort(2) /\ UNCHANGED helpPrinted
    /\ UNCHANGED <<Inputs, ip, args, fs, docs, log, handlers>>

Next ==
    \/ MainEnter
    \/ ParseArgs
    \/ Dispatch
    \/ HandlerReturn
    \/ MainExit
    \/ ConfigInit
    \/ EnterDir
    \/ LeaveDir
    \/ RunCommand
    \/ CopyFile
    \/ TouchFile
    \/ RemoveTree
    \/ RemoveFile
    \/ RemoveGlob
    \/ RewriteTomls
    \/ RewriteNotices
    \/ RewritePackage
    \/ RewriteTauri
    \/ HelpStep

Spec == Init /\ [][Next]_vars

----------------------------------------------------------------------------
(* Vocabulary of the properties                                            *)

Done == phase = "done"

Status == exitCode[1]

LogIdx == 1..Len(log)

\* an external command or a file operation (not the platform detection)
IsWork(ev) == ev.op # "config"

IsRun(ev) == ev.op = "run"

FailedRun(ev) == ev.op = "run" /\ ev.rc # 0

Unsupported == platform \notin {"Windows", "Darwin", "Linux"}

\* the component an executed step belongs to, read off the command and the
\* directory it ran in
Component(ev) ==
    CASE ev.op = "copy"  -> "--simulator"
      [] ev.op = "touch" -> "--main"
      [] ev.op = "run" /\ ev.cmd[1] = "npm" -> "--main"
      [] ev.op = "run" /\ ev.cmd[1] = "cargo" /\ Last(ev.cwd) = "simulator" -> "--simulator"
      [] ev.op = "run" /\ ev.cmd[1] = "cargo" /\ Last(ev.cwd) = "SOEMAUTDServer" -> "--soem"
      [] ev.op = "run" /\ ev.cmd[1] = "cargo" /\ Last(ev.cwd) = "TwinCATAUTDServerLightweight" -> "--twincat"
      [] ev.op = "run" /\ ev.cmd[1] = "cargo" /\ Last(ev.cwd) = "src-tauri" -> "--main"
      [] OTHER -> "none"

Rank(flag) ==
    CASE flag = "--simulator" -> 1
      [] flag = "--soem"      -> 2
      [] flag = "--twincat"   -> 3
      [] flag = "--main"      -> 4
      [] OTHER                -> 0

Given(flag) == flag \in Tokens(argv)

BuildOrLint == args.handler \in {"server_build", "server_lint"}

----------------------------------------------------------------------------
\* C1: once an external command has returned a non-zero exit code, nothing
\* more is executed in the run: the log of commands and file operations and
\* the files on disk stay as they are.
C1_FailFast ==
    [][(\E i \in LogIdx : FailedRun(log[i]))
          => (log' = log /\ fs' = fs /\ docs' = docs)]_vars

\* a command failed while statements of the handler were still to come
C1_Witness ==
    /\ Done
    /\ Len(log) >= 2
    /\ FailedRun(log[Len(log)])
    /\ \E k \in (ip + 1)..Len(Prog) : Prog[k].op \in {"run", "touch", "rmtree"}

----------------------------------------------------------------------------
\* the handler each subcommand stands for
ActionOf(tokens) ==
    CASE tokens[1] = "build" -> "server_build"
      [] tokens[1] = "lint"  -> "server_lint"
      [] tokens[1] = "clear" -> "server_clear"
      [] tokens[1] = "util"  -> "util_update_ver"
      [] tokens[1] = "help"  -> "command_help"
      [] tokens[1] = "check-license" -> "check_license"

\* a complete, well-formed selection of one of the actions
Selects(tokens, names) ==
    /\ tokens # <<>>
    /\ tokens[1] \in names
    /\ tokens[1] \in {"build", "lint"} => Tokens(Tail(tokens)) \subseteq FlagSet
    /\ tokens[1] = "util" => Len(tokens) = 3 /\ tokens[2] = "upver"
    /\ tokens[1] = "help" => Len(tokens) = 2

NoSubcommand ==
    argv = <<>> => /\ handlers = <<>>
                   /\ log = <<>>
                   /\ Done => helpPrinted /\ Status = 0

\* C2 (as stated): each of build, lint, clear, update-version, check-license
\* and help is selectable and runs exactly its own handler; without a
\* subcommand no handler runs and only the help is printed.
C2_Original ==
    /\ Len(handlers) <= 1
    /\ (Done /\ Selects(argv, {"build", "lint", "clear", "util", "help", "check-license"}))
          => handlers = <<ActionOf(argv)>>
    /\ NoSubcommand

\* C2 (amended): each of build, lint, clear, update-version (util upver) and
\* help is selectable and runs exactly its own handler, one handler per
\* invocation; without a subcommand no handler runs, nothing is executed and
\* the help is printed.
C2_Dispatch ==
    /\ Len(handlers) <= 1
    /\ (phase \in {"handler", "exit", "done"}
        /\ Selects(argv, {"build", "lint", "clear", "util", "help"}))
          => handlers = <<ActionOf(argv)>>
    /\ NoSubcommand

\* lint was selected and its handler has finished
C2_Witness ==
    /\ Done
    /\ argv # <<>>
    /\ argv[1] = "lint"
    /\ handlers = <<"server_lint">>
    /\ Len(log) >= 2

----------------------------------------------------------------------------
\* on an unsupported platform the handlers hs execute the platform detection
\* and nothing else
PlatformFirst(hs) ==
    (args.handler \in hs /\ Unsupported) =>
        /\ \A i \in LogIdx : ~IsWork(log[i])
        /\ fs = fs0
        /\ docs = InitDocs
        /\ phase # "exit"
        /\ Done => Status # 0 /\ Len(log) = 1

\* the first statement the handlers hs execute is the platform detection
DetectsFirst(hs) ==
    (args.handler \in hs /\ ((phase = "handler" /\ ip > 1) \/ phase \in {"exit", "done"}))
        => log # <<>> /\ log[1].op = "config"

\* C3 (as stated): build, lint, clear and update-version all detect the
\* platform first and, on an unsupported platform, exit non-zero before any
\* command or file operation.
C3_Original ==
    PlatformFirst({"server_build", "server_lint", "server_clear", "util_update_ver"})

\* C3 (amended): build, clear and update-version detect the platform as
\* their first step and, on an unsupported platform, exit non-zero before
\* any command or file operation (lint does not detect the platform).
C3_PlatformFirst ==
    /\ DetectsFirst({"server_build", "server_clear", "util_update_ver"})
    /\ PlatformFirst({"server_build", "server_clear", "util_update_ver"})

\* clear on an unsupported platform has exited
C3_Witness ==
    /\ Done
    /\ Unsupported
    /\ args.handler = "server_clear"
    /\ Status = 255

----------------------------------------------------------------------------
\* C4: in build and lint the executed steps appear in the order simulator,
\* SOEM, TwinCAT, main, whatever flags were given and in whatever order.
C4_Order ==
    BuildOrLint =>
        \A i, j \in LogIdx :
            (i < j /\ IsWork(log[i]) /\ IsWork(log[j]))
                => /\ Rank(Component(log[i])) >= 1
                   /\ Rank(Component(log[i])) <= Rank(Component(log[j]))

\* all four components were built although the flags came in reverse order
C4_Witness ==
    /\ Done
    /\ argv = <<"build", "--main", "--twincat", "--soem", "--simulator">>
    /\ Status = 0
    /\ {Component(log[i]) : i \in {k \in LogIdx : IsWork(log[k])}} = FlagSet

----------------------------------------------------------------------------
\* number of steps a component has in a complete run of the handler
StepsOf(handler, flag) ==
    IF handler = "server_lint" THEN 1
    ELSE CASE flag = "--simulator" -> 3
           [] flag = "--main"      -> 6
           [] OTHER                -> 1

Executed(flag) == Cardinality({i \in LogIdx : IsWork(log[i]) /\ Component(log[i]) = flag})

\* the run stopped at a failing step that is not later than the component
StoppedBy(flag) ==
    /\ log # <<>>
    /\ Last(log).rc # 0
    /\ ~IsWork(Last(log)) \/ Rank(Component(Last(log))) <= Rank(flag)

\* C5: in build and lint a component's steps run only if its flag is given,
\* they all run if the flag is given and nothing failed before, and without
\* any flag nothing is run and no file is created, copied or touched.
C5_Flags ==
    BuildOrLint =>
        /\ \A i \in LogIdx : IsWork(log[i]) => Given(Component(log[i]))
        /\ phase \in {"exit", "done"} =>
              \A flag \in FlagSet :
                  Given(flag) => \/ Executed(flag) = StepsOf(args.handler, flag)
                                 \/ StoppedBy(flag)
        /\ (Tokens(argv) \cap FlagSet = {}) =>
              /\ \A i \in LogIdx : ~IsWork(log[i])
              /\ fs = fs0

\* a run with two of the four flags completed: exactly those two ran
C5_Witness ==
    /\ Done
    /\ Status = 0
    /\ argv = <<"build", "--soem", "--main">>
    /\ Executed("--soem") = 1
    /\ Executed("--main") = 6
    /\ Executed("--simulator") = 0

----------------------------------------------------------------------------
FourActions == {"server_build", "server_lint", "server_clear", "util_update_ver"}

ExitPolicy(detecting) ==
    (Done /\ args.handler \in FourActions) =>
        /\ (\E i \in LogIdx : FailedRun(log[i])) => Status # 0
        /\ (Unsupported /\ args.handler \in detecting) => Status # 0
        /\ (\A i \in LogIdx : log[i].rc = 0) /\ ~(Unsupported /\ args.handler \in detecting)
              => Status = 0

\* C6 (as stated): the exit status is non-zero if a command fails or the
\* platform is unsupported, and zero when every step succeeds.
C6_Original == ExitPolicy(FourActions)

\* C6 (amended): the exit status is non-zero if a command fails or, in
\* build, clear and update-version, the platform is unsupported; it is zero
\* when every step of the action succeeds.
C6_ExitStatus == ExitPolicy({"server_build", "server_clear", "util_update_ver"})

\* one run that failed in its last command
C6_Witness ==
    /\ Done
    /\ args.handler = "server_clear"
    /\ Len(log) = 10
    /\ FailedRun(log[10])
    /\ Status = 1

----------------------------------------------------------------------------
VersionHeads == {"version", "autd3", "title", "SOEMAUTDServer", "simulator"}

Versioned == Tomls \cup Notices \cup {PackageJson, TauriConf}

HasVersion(q, v) ==
    \A k \in 1..Len(docs[q]) : docs[q][k].head \in VersionHeads => docs[q][k].ver = v

Subs == {"sub_tomls", "sub_notices", "sub_package", "sub_tauri"}

\* C7: in update-version every file is rewritten before the first external
\* command, and from then on, also when a command fails, every rewritten
\* file carries the new version.
C7_NoRollback ==
    args.handler = "util_update_ver" =>
        /\ \A j \in LogIdx : IsRun(log[j]) => Subs \subseteq {log[i].op : i \in 1..(j - 1)}
        /\ (\E j \in LogIdx : IsRun(log[j])) => \A q \in Versioned : HasVersion(q, args.version)

\* the second cargo update failed and the files carry the new version
C7_Witness ==
    /\ Done
    /\ args.handler = "util_update_ver"
    /\ Len(log) = 7
    /\ FailedRun(log[7])
    /\ Status # 0
    /\ \A q \in Versioned : HasVersion(q, NewVersion) /\ ~HasVersion(q, OldVersion)

----------------------------------------------------------------------------
IsSimulatorBuild(ev, c) == IsRun(ev) /\ ev.cmd = c /\ Last(ev.cwd) = "simulator"

UnityExes == {q \in DOMAIN fs : q.dir = ScriptDir \o Release /\ q.stem = "simulator"
                                 /\ q.tail = "-unity"}

\* C8: in build --simulator the copy to simulator-unity directly follows a
\* successful unity build, the plain build directly follows a successful
\* copy, and simulator-unity never holds the plain build's output.
C8_UnityCopy ==
    args.handler = "server_build" =>
        /\ \A i \in LogIdx : log[i].op = "copy" =>
              /\ i > 1
              /\ IsSimulatorBuild(log[i - 1], CargoBuildUnity)
              /\ log[i - 1].rc = 0
              /\ \A k \in 1..i : ~IsSimulatorBuild(log[k], CargoBuild)
        /\ \A j \in LogIdx : IsSimulatorBuild(log[j], CargoBuild) =>
              /\ j > 1
              /\ log[j - 1].op = "copy"
              /\ log[j - 1].rc = 0
        /\ \A q \in UnityExes : fs[q].content # "plain"

\* both builds succeeded: simulator is the plain build, simulator-unity the unity one
C8_Witness ==
    /\ args.handler = "server_build"
    /\ \E j \in LogIdx : IsSimulatorBuild(log[j], CargoBuild) /\ log[j].rc = 0
    /\ \E q \in UnityExes : fs[q].content = "unity"
    /\ \E q \in DOMAIN fs : q.dir = ScriptDir \o Release /\ q.stem = "simulator"
                            /\ q.tail = "" /\ fs[q].content = "plain"

----------------------------------------------------------------------------
AtBundler == AtStmt("run") /\ Cur.cmd = NpmTauriBuild

\* C9: in build --main the bundler is invoked only after npm install
\* succeeded and with all four helper executables present, and touching a
\* placeholder never changes the content of an existing file.
C9_Bundler ==
    /\ [](AtBundler =>
            /\ \E i \in LogIdx : log[i].cmd = NpmInstall /\ log[i].rc = 0
            /\ Helpers(platform) \subseteq DOMAIN fs)
    /\ [][AtStmt("touch") =>
            \A q \in DOMAIN fs : q \in DOMAIN fs' /\ fs'[q].content = fs[q].content]_vars

\* about to bundle: one helper was built in this run, another is a placeholder
C9_Witness ==
    /\ AtBundler
    /\ \E q \in Helpers(platform) : fs[q].content = "plain" /\ fs[q].mtime = "now"
    /\ \E q \in Helpers(platform) : fs[q].content = ""

----------------------------------------------------------------------------
\* the working_dir blocks that enclose statement k, outermost first
RECURSIVE Enclosing(_, _)
Enclosing(prog, k) ==
    IF k <= 1 THEN <<>>
    ELSE LET n == Enclosing(prog, k - 1)
             s == prog[k - 1]
         IN IF s.op = "enter" THEN Append(n, s.dir)
            ELSE IF s.op = "leave" THEN Front(n)
            ELSE n

RECURSIVE Resolve(_, _)
Resolve(base, dirs) ==
    IF dirs = <<>> THEN base
    ELSE Resolve(IF dirs[1] = <<".">> THEN base ELSE base \o dirs[1], Tail(dirs))

\* C10: every executed step ran in the directory of its innermost enclosing
\* working_dir block (the script's directory when there is none), and when
\* the script has ended the working directory is the one it started in.
C10_Cwd ==
    /\ \A i \in LogIdx : log[i].cwd = Resolve(ScriptDir, Enclosing(Prog, log[i].ip))
    /\ Done => cwd = startCwd /\ saved = <<>>

\* started elsewhere, failed inside a block after a step outside of one
C10_Witness ==
    /\ Done
    /\ startCwd # ScriptDir
    /\ cwd = startCwd
    /\ Len(log) >= 4
    /\ log[3].op = "copy"
    /\ FailedRun(log[4])
    /\ log[4].cwd = ScriptDir \o <<"simulator">>

====
